---- MODULE Spec2Model ----
(***************************************************************************)
(* City Boundary Editor (src/app.py): loading a base feature from an       *)
(* upload or an OSM lookup, the map widget's raw draw output, the          *)
(* normalization of that output into one Feature, and save / download.     *)
(*                                                                         *)
(* Geometry is abstracted to a declared type and the set of grid cells it  *)
(* covers.  Cells lie on a line; a set of cells is one connected polygon   *)
(* iff it is a non-empty interval.  A point lies off the grid and covers   *)
(* no cell.                                                                *)
(***************************************************************************)
EXTENDS Integers, Sequences, FiniteSets, TLC

\* ---------------------------------------------------------------- bounds
MaxCell == 3
MaxRecs == 2
MaxDrawn == 1

Cells == 1..MaxCell

\* ------------------------------------------------------------- geometry
Polygonal == {"Polygon", "MultiPolygon"}

G(t, s) == [gtype |-> t, cells |-> s]

\* value of a record that has no "geometry" key at all
NoGeometry == G("Absent", {})
\* a "geometry" value shape() cannot read (None, a string, bad coordinates)
Unparseable == G("Unparseable", {})
PointGeom == G("Point", {})
LineGeom == G("LineString", {})
\* {"type": "Polygon", "coordinates": []}: shape() gives an empty Polygon
EmptyPolygon == G("Polygon", {})

Connected(s) == s # {} /\ \A c \in Cells : (\E a \in s : a <= c) /\ (\E b \in s : c <= b) => c \in s

\* shapely.geometry.shape: raises on anything that is no GeoJSON geometry
Shape(raw) ==
  IF raw.gtype \in {"Polygon", "MultiPolygon", "Point", "MultiPoint", "LineString", "GeometryCollection"}
  THEN [exc |-> FALSE, geom |-> G(raw.gtype, raw.cells)]
  ELSE [exc |-> TRUE, geom |-> NoGeometry]

\* shapely.geometry.mapping: geometry object back to a GeoJSON mapping
mapping(geom) == [gtype |-> geom.gtype, cells |-> geom.cells]

RECURSIVE UnionCells(_)
UnionCells(geoms) ==
  IF geoms = <<>> THEN {} ELSE Head(geoms).cells \cup UnionCells(Tail(geoms))

AnyPointLike(geoms) == \E i \in 1..Len(geoms) : geoms[i].gtype \notin Polygonal
AnyArea(geoms) == \E i \in 1..Len(geoms) : geoms[i].gtype \in Polygonal /\ geoms[i].cells # {}

\* GeoDataFrame(...).dissolve().iloc[0].geometry: the unary union of the rows.
\* eu is the type the installed GEOS gives an empty union: a GeometryCollection
\* (unary union of empty inputs) or an empty Polygon (dimension-preserving builds).
FirstOnly(geoms, eu) ==
  LET s == Head(geoms).cells
  IN IF s = {} THEN G(eu, {})
     ELSE IF Connected(s) THEN G("Polygon", s) ELSE G("MultiPolygon", s)

dissolve(geoms, eu) ==
  LET s == UnionCells(geoms)
  IN IF AnyPointLike(geoms)
     THEN IF AnyArea(geoms) THEN G("GeometryCollection", s) ELSE G("Point", {})
     ELSE IF s = {} THEN G(eu, {})
     ELSE IF Connected(s) THEN G("Polygon", s) ELSE G("MultiPolygon", s)

\* ------------------------------------------------------------- features
Absent == "<absent>"

Props(n, x) == [name |-> n, extra |-> x]

\* dict.get("name", default) on a properties mapping
GetName(props, default) == IF props.name = Absent THEN default ELSE props.name

Feature(props, hasG, g) ==
  [type |-> "Feature", properties |-> props, hasGeometry |-> hasG, geometry |-> g]

\* Python None for the variables that hold a feature
None == [type |-> "None", properties |-> Props(Absent, FALSE), hasGeometry |-> FALSE, geometry |-> NoGeometry]

\* ------------------------------------------------- raw editor output
\* One shape record of all_drawings / all_features / last_active_drawing.
\*   isMap        the record is a mapping (else: a number, None, ...)
\*   type         its "type" value, Absent when it has none
\*   hasGeometry  it has a "geometry" key, whose value is geometry
\*   cells        its own "coordinates" (a bare geometry), else {}
\*   name         its properties' name, Absent when it has none
Rec(m, t, hg, g, cs, n) ==
  [isMap |-> m, type |-> t, hasGeometry |-> hg, geometry |-> g, cells |-> cs, name |-> n]

NotMapping == Rec(FALSE, Absent, FALSE, NoGeometry, {}, Absent)
FeatureRec(g) == Rec(TRUE, "Feature", TRUE, g, {}, "drawn")
FeatureNoGeom == Rec(TRUE, "Feature", FALSE, NoGeometry, {}, "drawn")
GeomOnly(g) == Rec(TRUE, Absent, TRUE, g, {}, Absent)
Bare(g) == Rec(TRUE, g.gtype, FALSE, NoGeometry, g.cells, Absent)

DrawnGeoms ==
  {G("Polygon", {1}), G("Polygon", {2}), G("MultiPolygon", {1, MaxCell}), EmptyPolygon, PointGeom, Unparseable}

Records ==
  {NotMapping, FeatureNoGeom, GeomOnly(G("Polygon", {MaxCell})), Bare(G("Polygon", {1}))}
    \cup {FeatureRec(g) : g \in DrawnGeoms}

SeqsUpTo(S, n) == UNION {[1..k -> S] : k \in 0..n}

ListField(items) == [kind |-> "list", items |-> items]
AbsentField == [kind |-> "absent", items |-> <<>>]
NonListField == [kind |-> "nonlist", items |-> <<>>]

ListFields(n) == {AbsentField} \cup {ListField(s) : s \in SeqsUpTo(Records, n)}

LadDict(r) == [kind |-> "dict", rec |-> r]
LadAbsent == [kind |-> "absent", rec |-> NotMapping]
LadNonDict == [kind |-> "nondict", rec |-> NotMapping]

Lads ==
  {LadAbsent, LadNonDict, LadDict(FeatureRec(G("Polygon", {2}))), LadDict(FeatureRec(Unparseable)),
   LadDict(Bare(G("Polygon", {1})))}

Output(ad, af, lad) == [all_drawings |-> ad, all_features |-> af, last_active_drawing |-> lad]

TotalRecs(o) ==
  Len(o.all_drawings.items) + Len(o.all_features.items)
    + (IF o.last_active_drawing.kind = "dict" THEN 1 ELSE 0)

\* o is a payload st_folium can hand back, of up to n shape records in all
IsOutput(o, n) ==
  \E ad \in ListFields(n) :
    \E af \in ListFields(n - Len(ad.items)) \cup {NonListField} :
      \E lad \in {l \in Lads : l.kind = "dict" => Len(ad.items) + Len(af.items) < n} :
        o = Output(ad, af, lad)

\* ------------------------------------------- normalize_drawn_features
\* Outcome of a try body: exc when it raised, else the items it appended.
Raised == [exc |-> TRUE, items |-> <<>>]
Appended(items) == [exc |-> FALSE, items |-> items]

\* "except Exception: pass" / "except Exception: continue"
Propagate(r) == r

ExceptPass(r) == IF r.exc THEN Appended(<<>>) ELSE r

\* {"type": "Feature", "properties": {}, "geometry": g}
Wrap(g) == Rec(TRUE, "Feature", TRUE, g, {}, Absent)

\* a bare geometry taken for a candidate of its own
TryAppendBare(f) ==
  IF ~f.isMap THEN Raised
  ELSE IF f.type = "Feature" THEN Appended(<<f>>)
  ELSE IF f.hasGeometry THEN Appended(<<Wrap(f.geometry)>>)
  ELSE IF f.type \in Polygonal THEN Appended(<<Wrap(G(f.type, f.cells))>>)
  ELSE Appended(<<>>)

\* body of the try at lines 98-102, for one record f of a shape list; a record
\* that is no mapping raises there (or, a string, matches neither test)
TryAppend(f) ==
  IF ~f.isMap THEN Raised
  ELSE IF f.type = "Feature" THEN Appended(<<f>>)
  ELSE IF f.hasGeometry THEN Appended(<<Wrap(f.geometry)>>)
  ELSE Appended(<<>>)

Join(a, b) == [exc |-> a.exc \/ b.exc, items |-> IF a.exc \/ b.exc THEN <<>> ELSE a.items \o b.items]

RECURSIVE CollectList(_)
CollectList(drawn) ==
  IF drawn = <<>> THEN Appended(<<>>)
  ELSE Join(ExceptPass(TryAppend(Head(drawn))), CollectList(Tail(drawn)))

\* lines 93-104 for one key: "if drawn and isinstance(drawn, list)"
CollectKey(field) ==
  IF field.kind = "list" /\ field.items # <<>> THEN CollectList(field.items) ELSE Appended(<<>>)

\* lines 107-109: "if lad and isinstance(lad, dict) and 'geometry' in lad"
CollectLad(lad) ==
  IF lad.kind = "dict" /\ lad.rec.hasGeometry THEN Appended(<<Wrap(lad.rec.geometry)>>) ELSE Appended(<<>>)

\* body of the try at lines 119-121, for one collected feature f
TryShape(f) ==
  IF ~f.hasGeometry THEN Raised
  ELSE LET r == Shape(f.geometry)
       IN IF r.exc THEN Raised
          ELSE IF r.geom.gtype \in Polygonal THEN Appended(<<r.geom>>)
          ELSE Appended(<<>>)

RECURSIVE CollectGeoms(_)
CollectGeoms(features) ==
  IF features = <<>> THEN Appended(<<>>)
  ELSE Join(ExceptPass(TryShape(Head(features))), CollectGeoms(Tail(features)))

Returned(f) == [raised |-> FALSE, feature |-> f]
Raises == [raised |-> TRUE, feature |-> None]

\* lines 136-140
NameFromDrawn(fallback_feature, features, merged) ==
  Feature(Props(Head(features).name, FALSE), TRUE, mapping(merged))

BuildFeature(fallback_feature, features, merged) ==
  Feature(Props(GetName(fallback_feature.properties, "edited"), FALSE), TRUE, mapping(merged))

\* a fallback that is rebuilt instead of handed back
Rebuilt(fallback_feature) ==
  Feature(Props(GetName(fallback_feature.properties, "edited"), FALSE), TRUE, fallback_feature.geometry)

\* lines 112-113, 125-126, 132-133: "return fallback_feature"
ReturnFallback(fallback_feature) == fallback_feature

normalize_drawn_features(output, fallback_feature, eu) ==
  LET collected == Join(Join(CollectKey(output.all_drawings), CollectKey(output.all_features)),
                        CollectLad(output.last_active_drawing))
      features == collected.items
      parsed == CollectGeoms(features)
      geoms == parsed.items
  IN IF collected.exc THEN Raises
     ELSE IF features = <<>> THEN Returned(ReturnFallback(fallback_feature))
     ELSE IF parsed.exc THEN Raises
     ELSE IF geoms = <<>> THEN Returned(ReturnFallback(fallback_feature))
     ELSE LET merged == dissolve(geoms, eu)
          IN IF merged.gtype \notin Polygonal THEN Returned(ReturnFallback(fallback_feature))
             ELSE Returned(BuildFeature(fallback_feature, features, merged))

\* ------------------------------------------------ load base feature
NoError == ""

\* The uploaded file.  kind: "none" (no upload), "badjson" (json.load raises),
\* "notmapping" (JSON that is no object), else the object's "type".
Upload(k, props, hasG, g, members) ==
  [kind |-> k, properties |-> props, hasGeometry |-> hasG, geometry |-> g, features |-> members]

NoUpload == Upload("none", Props(Absent, FALSE), FALSE, NoGeometry, <<>>)
Plain(k) == Upload(k, Props(Absent, FALSE), FALSE, NoGeometry, <<>>)
UploadedFeature(props, hasG, g) == Upload("Feature", props, hasG, g, <<>>)
UploadedCollection(members) == Upload("FeatureCollection", Props(Absent, FALSE), FALSE, NoGeometry, members)

\* a member of "features": readable when from_features finds its geometry and properties
Member(g) == [readable |-> TRUE, geometry |-> g]
BadMember == [readable |-> FALSE, geometry |-> NoGeometry]

Uploads ==
  {Plain("badjson"), Plain("notmapping"), Plain("Topology"),
   UploadedFeature(Props(Absent, FALSE), TRUE, G("Polygon", {1})),
   UploadedFeature(Props("up", TRUE), TRUE, G("MultiPolygon", {1, MaxCell})),
   UploadedFeature(Props("up", TRUE), TRUE, PointGeom),
   UploadedFeature(Props("up", FALSE), FALSE, NoGeometry),
   UploadedCollection(<<>>),
   UploadedCollection(<<Member(G("Polygon", {1}))>>),
   UploadedCollection(<<Member(G("Polygon", {1})), Member(G("Polygon", {MaxCell}))>>),
   UploadedCollection(<<Member(PointGeom)>>),
   UploadedCollection(<<Member(G("Polygon", {2})), Member(PointGeom)>>),
   UploadedCollection(<<BadMember>>),
   UploadedCollection(<<Member(G("Polygon", {1})), BadMember>>)}

Loaded(f, e) == [feature |-> f, error_msg |-> e]

AllReadable(members) == \A i \in 1..Len(members) : members[i].readable /\ ~Shape(members[i].geometry).exc

MemberGeoms(members) == [i \in 1..Len(members) |-> Shape(members[i].geometry).geom]

\* "feature = data" made before the type is looked at
InvalidKeepsData(data) ==
  Loaded(Feature(data.properties, data.hasGeometry, data.geometry), "Invalid GeoJSON structure.")

\* lines 181-182
InvalidStructure(data) == Loaded(None, "Invalid GeoJSON structure.")

\* the collection branch taken without looking at "features"
AnyFeatures(data) == TRUE

\* line 175: "and data.get('features')"
HasFeatures(data) == data.features # <<>>

\* lines 169-184
UploadHandling(data, eu) ==
  IF data.kind \in {"badjson", "notmapping"} THEN Loaded(None, "Failed to read GeoJSON")
  ELSE IF data.kind = "Feature"
  THEN Loaded(Feature(data.properties, data.hasGeometry, data.geometry), NoError)
  ELSE IF data.kind = "FeatureCollection" /\ HasFeatures(data)
  THEN IF ~AllReadable(data.features) THEN Loaded(None, "Failed to read GeoJSON")
       ELSE Loaded(Feature(Props("uploaded", FALSE), TRUE, mapping(dissolve(MemberGeoms(data.features), eu))),
                   NoError)
  ELSE InvalidStructure(data)

\* What ox.geocode_to_gdf gives for a place: ok = FALSE when it raises; parts are the
\* members of a GeometryCollection.
Osm(ok, g, parts) == [ok |-> ok, geom |-> g, parts |-> parts]

OsmFails == Osm(FALSE, NoGeometry, <<>>)

OsmResults ==
  {OsmFails,
   Osm(TRUE, G("Polygon", {1, 2}), <<>>),
   Osm(TRUE, G("MultiPolygon", {1, MaxCell}), <<>>),
   Osm(TRUE, LineGeom, <<>>),
   Osm(TRUE, G("GeometryCollection", {2}), <<LineGeom, G("Polygon", {2})>>),
   Osm(TRUE, G("GeometryCollection", {}), <<LineGeom>>)}

IsPolygonal(g) == g.gtype \in Polygonal

\* lines 35-67; exc when it raises (st.cache_data only spares a repeated lookup)
fetch_city_boundary(city_name, osm) ==
  IF ~osm.ok THEN [exc |-> TRUE, feature |-> None]
  ELSE LET polys == SelectSeq(osm.parts, IsPolygonal)
           geom == IF osm.geom.gtype = "GeometryCollection" /\ polys # <<>> THEN polys[1] ELSE osm.geom
       IN IF osm.geom.gtype = "GeometryCollection" /\ polys = <<>> THEN [exc |-> TRUE, feature |-> None]
          ELSE IF geom.gtype \in Polygonal
          THEN [exc |-> FALSE, feature |-> Feature(Props(city_name, FALSE), TRUE, mapping(geom))]
          ELSE [exc |-> TRUE, feature |-> None]

\* lines 186-190
LookupHandling(city, osm) ==
  LET r == fetch_city_boundary(city, osm)
  IN IF r.exc THEN Loaded(None, "OSM lookup failed") ELSE Loaded(r.feature, NoError)

Cities == {"", "Bhopal"}

\* ------------------------------------------------------- the script
VARIABLES
  pc,              \* position of the script run
  uploaded,        \* the file in the uploader
  feature,         \* base feature of this run
  error_msg,
  out,             \* what st_folium returned
  edited_feature,
  saved,           \* feature written by "Save to server" in this run
  download,        \* feature offered by the download button in this run
  reads,           \* uploads read in this run
  lookups,         \* OSM lookups made in this run
  calls,           \* normalize_drawn_features calls made in this run
  emptyUnion,      \* geometry type the installed GEOS gives an empty union
  rearranged       \* the widget re-presented the same shapes

vars == <<pc, uploaded, feature, error_msg, out, edited_feature, saved, download,
          reads, lookups, calls, emptyUnion, rearranged>>

NoOutput == Output(AbsentField, AbsentField, LadAbsent)

EmptyUnionTypes == {"GeometryCollection", "Polygon"}

\* lines 165-167
Init ==
  /\ pc = "start"
  /\ uploaded \in Uploads \cup {NoUpload}
  /\ feature = None
  /\ error_msg = NoError
  /\ out = NoOutput
  /\ edited_feature = None
  /\ saved = None
  /\ download = None
  /\ reads = 0
  /\ lookups = 0
  /\ calls = 0
  /\ emptyUnion \in EmptyUnionTypes
  /\ rearranged = FALSE

\* lines 169-184: "if uploaded is not None"
LoadUpload ==
  /\ pc = "start"
  /\ uploaded # NoUpload
  /\ LET r == UploadHandling(uploaded, emptyUnion)
     IN /\ feature' = r.feature
        /\ error_msg' = r.error_msg
  /\ reads' = reads + 1
  /\ pc' = "loaded"
  /\ UNCHANGED <<uploaded, out, edited_feature, saved, download, lookups, calls, emptyUnion, rearranged>>

\* lines 186-190: "elif fetch_btn or city"
LoadLookup ==
  /\ pc = "start"
  /\ uploaded = NoUpload
  /\ \E city \in Cities, fetch_btn \in BOOLEAN, osm \in OsmResults :
       /\ fetch_btn \/ city # ""
       /\ city = "" => osm = OsmFails
       /\ LET r == LookupHandling(city, osm)
          IN /\ feature' = r.feature
             /\ error_msg' = r.error_msg
  /\ lookups' = lookups + 1
  /\ pc' = "loaded"
  /\ UNCHANGED <<uploaded, out, edited_feature, saved, download, reads, calls, emptyUnion, rearranged>>

\* neither branch: no upload, empty place name, button not pressed
LoadNothing ==
  /\ pc = "start"
  /\ uploaded = NoUpload
  /\ pc' = "loaded"
  /\ UNCHANGED <<uploaded, feature, error_msg, out, edited_feature, saved, download,
                 reads, lookups, calls, emptyUnion, rearranged>>

\* lines 266-267: "if feature" is false
ShowInfo ==
  /\ pc = "loaded"
  /\ feature = None
  /\ pc' = "done"
  /\ UNCHANGED <<uploaded, feature, error_msg, out, edited_feature, saved, download,
                 reads, lookups, calls, emptyUnion, rearranged>>

Renderable(f) == f.hasGeometry /\ ~Shape(f.geometry).exc

\* line 197: shape(feature["geometry"]) raises and the run ends
RenderFails ==
  /\ pc = "loaded"
  /\ feature # None
  /\ ~Renderable(feature)
  /\ pc' = "crashed"
  /\ UNCHANGED <<uploaded, feature, error_msg, out, edited_feature, saved, download,
                 reads, lookups, calls, emptyUnion, rearranged>>

\* lines 195-229: the map is shown and st_folium returns the draw output
MapInteract ==
  /\ pc = "loaded"
  /\ feature # None
  /\ Renderable(feature)
  /\ IsOutput(out', MaxDrawn)
  /\ pc' = "widget"
  /\ UNCHANGED <<uploaded, feature, error_msg, edited_feature, saved, download,
                 reads, lookups, calls, emptyUnion, rearranged>>

\* lines 231-233
Normalize ==
  /\ pc = "widget"
  /\ LET r == normalize_drawn_features(out, feature, emptyUnion)
     IN /\ edited_feature' = r.feature
        /\ pc' = IF r.raised THEN "crashed" ELSE "normalized"
  /\ calls' = calls + 1
  /\ UNCHANGED <<uploaded, feature, error_msg, out, saved, download, reads, lookups, emptyUnion, rearranged>>

\* lines 235-252: "Save to server" pressed or not; the download is always offered
SaveDownload ==
  /\ pc = "normalized"
  /\ \E save_btn \in BOOLEAN : saved' = IF save_btn THEN edited_feature ELSE None
  /\ download' = edited_feature
  /\ pc' = "done"
  /\ UNCHANGED <<uploaded, feature, error_msg, out, edited_feature, reads, lookups, calls, emptyUnion, rearranged>>

\* the next user action starts the script again, lines 165-167
Rerun ==
  /\ pc \in {"done", "crashed"}
  /\ pc' = "start"
  /\ uploaded' \in Uploads \cup {NoUpload}
  /\ feature' = None
  /\ error_msg' = NoError
  /\ out' = NoOutput
  /\ edited_feature' = None
  /\ saved' = None
  /\ download' = None
  /\ reads' = 0
  /\ lookups' = 0
  /\ calls' = 0
  /\ UNCHANGED <<emptyUnion, rearranged>>

Next ==
  \/ LoadUpload
  \/ LoadLookup
  \/ LoadNothing
  \/ ShowInfo
  \/ RenderFails
  \/ MapInteract
  \/ Normalize
  \/ SaveDownload
  \/ Rerun

Spec == Init /\ [][Next]_vars

\* ------------------------------------------- the normalizer on its own
\* Features the script can hand to the normalizer as fallback_feature: loaded
\* by an upload or a lookup, and drawn on the map (line 197 did not raise).
LoadableFeatures ==
  {f \in {UploadHandling(u, eu).feature : u \in Uploads, eu \in EmptyUnionTypes}
           \cup {LookupHandling(c, o).feature : c \in Cities \ {""}, o \in OsmResults} :
     f # None /\ Renderable(f)}

\* one of each kind: an uploaded polygon without a name, an uploaded point with
\* further properties, a dissolved collection, a fetched boundary
NormFallbacks ==
  {f \in LoadableFeatures :
     \/ f.properties.name = Absent
     \/ f.properties.extra /\ f.geometry = PointGeom
     \/ f.properties.name = "uploaded" /\ f.geometry.gtype = "MultiPolygon"
     \/ f.properties.name = "Bhopal" /\ f.geometry.gtype = "Polygon" /\ f.geometry.cells = {1, 2}}

InitNorm ==
  /\ pc = "widget"
  /\ uploaded = NoUpload
  /\ feature \in NormFallbacks
  /\ error_msg = NoError
  /\ IsOutput(out, MaxRecs)
  /\ edited_feature = None
  /\ saved = None
  /\ download = None
  /\ reads = 0
  /\ lookups = 0
  /\ calls = 0
  /\ emptyUnion \in EmptyUnionTypes
  /\ rearranged = FALSE

SpecNorm == InitNorm /\ [][Normalize]_vars

\* ------------------------------------- the same shapes presented again
\* the widget hands back another payload and lines 231-233 run on it
Renormalize(o) ==
  /\ pc = "normalized"
  /\ o # out
  /\ out' = o
  /\ LET r == normalize_drawn_features(o, feature, emptyUnion)
     IN /\ edited_feature' = r.feature
        /\ pc' = IF r.raised THEN "crashed" ELSE "normalized"
  /\ calls' = calls
  /\ rearranged' = TRUE
  /\ UNCHANGED <<uploaded, feature, error_msg, saved, download, reads, lookups, emptyUnion>>

Swap(s, i, j) == [k \in 1..Len(s) |-> IF k = i THEN s[j] ELSE IF k = j THEN s[i] ELSE s[k]]

Remove(s, i) == [k \in 1..(Len(s) - 1) |-> IF k < i THEN s[k] ELSE s[k + 1]]

\* the records of a shape list come back in another order
Reorder ==
  \/ \E i, j \in 1..Len(out.all_drawings.items) :
       i < j /\ Renormalize([out EXCEPT !.all_drawings.items = Swap(@, i, j)])
  \/ \E i, j \in 1..Len(out.all_features.items) :
       i < j /\ Renormalize([out EXCEPT !.all_features.items = Swap(@, i, j)])

\* a record comes back in the other shape list
MoveRecord ==
  \/ \E i \in 1..Len(out.all_drawings.items) :
       Renormalize([out EXCEPT !.all_drawings.items = Remove(@, i),
                               !.all_features = ListField(out.all_features.items \o <<out.all_drawings.items[i]>>)])
  \/ \E i \in 1..Len(out.all_features.items) :
       Renormalize([out EXCEPT !.all_features.items = Remove(@, i),
                               !.all_drawings = ListField(out.all_drawings.items \o <<out.all_features.items[i]>>)])

HasValidGeometry(r) == r.isMap /\ r.hasGeometry /\ r.geometry.gtype \in Polygonal

\* a geometry already present comes back once more: as last_active_drawing too,
\* as an entry of all_drawings too, or as a second entry
PresentTwice ==
  /\ TotalRecs(out) < MaxRecs
  /\ \/ \E i \in 1..Len(out.all_drawings.items) :
          /\ HasValidGeometry(out.all_drawings.items[i])
          /\ out.last_active_drawing.kind # "dict"
          /\ Renormalize([out EXCEPT !.last_active_drawing = LadDict(out.all_drawings.items[i])])
     \/ /\ out.last_active_drawing.kind = "dict"
        /\ HasValidGeometry(out.last_active_drawing.rec)
        /\ Renormalize([out EXCEPT !.all_drawings =
                          ListField(out.all_drawings.items \o <<FeatureRec(out.last_active_drawing.rec.geometry)>>)])
     \/ \E i \in 1..Len(out.all_features.items) :
          /\ HasValidGeometry(out.all_features.items[i])
          /\ Renormalize([out EXCEPT !.all_features.items = @ \o <<out.all_features.items[i]>>])

InitRearrange ==
  /\ InitNorm
  /\ feature.properties.name \in {Absent, "Bhopal"}

NextRearrange ==
  \/ Normalize
  \/ Reorder
  \/ MoveRecord
  \/ PresentTwice

SpecRearrange == InitRearrange /\ [][NextRearrange]_vars

\* ---------------------------------------------------------- properties
\* The shape records of a payload, and which of them are valid polygonal
\* candidates: mappings with a "geometry" field holding a Polygon or MultiPolygon.
ListRecs(o) == o.all_drawings.items \o o.all_features.items

AllRecs(o) ==
  ListRecs(o) \o (IF o.last_active_drawing.kind = "dict" THEN <<o.last_active_drawing.rec>> ELSE <<>>)

CandidateIndices(o) == {i \in 1..Len(AllRecs(o)) : HasValidGeometry(AllRecs(o)[i])}

CandidateCount(o) == Cardinality(CandidateIndices(o))

CandidateGeoms(o) == {AllRecs(o)[i].geometry : i \in CandidateIndices(o)}

CandidateCells(o) == UNION {g.cells : g \in CandidateGeoms(o)}

Normalized(o) == normalize_drawn_features(o, feature, emptyUnion).feature

\* the dissolved candidates are a polygonal geometry (line 132 lets them through)
UnionIsPolygonal(o) == CandidateCells(o) # {} \/ emptyUnion = "Polygon"

\* C1: with zero valid polygonal candidates the normalizer returns the fallback
\* feature itself: same name, same properties, same geometry.
C1_FallbackUnchanged ==
  pc \in {"normalized", "crashed"} /\ CandidateCount(out) = 0
    => pc = "normalized" /\ edited_feature = feature

C1_Witness ==
  /\ pc = "normalized"
  /\ CandidateCount(out) = 0
  /\ Len(ListRecs(out)) > 0
  /\ feature.properties.extra

\* C2: after normalization the resulting geometry is always a Polygon or a
\* MultiPolygon, whatever was uploaded or fetched and whatever was drawn.
C2_AlwaysPolygonal ==
  pc = "normalized" => edited_feature.geometry.gtype \in Polygonal

Malformed(r) == ~r.isMap \/ ~r.hasGeometry \/ (r.type = "Feature" /\ Shape(r.geometry).exc)

WellFormed(r) == ~Malformed(r)

Strip(o) ==
  [o EXCEPT !.all_drawings.items = SelectSeq(@, WellFormed),
            !.all_features.items = SelectSeq(@, WellFormed),
            !.last_active_drawing = IF @.kind = "dict" /\ Malformed(@.rec) THEN LadAbsent ELSE @]

\* C3: malformed records (no mapping, no geometry field, a Feature whose geometry
\* is missing or unparseable) never make the normalizer raise, and with a valid
\* candidate present the result is that of the payload without them.
C3_MalformedIgnored ==
  /\ pc # "crashed"
  /\ pc = "normalized" /\ CandidateCount(out) >= 1 => edited_feature = Normalized(Strip(out))

C3_Witness ==
  /\ pc = "normalized"
  /\ CandidateCount(out) >= 1
  /\ \E i \in 1..Len(ListRecs(out)) : Malformed(ListRecs(out)[i])
  /\ edited_feature # feature

OnePolygon(o) == CandidateCount(o) = 1 /\ \A g \in CandidateGeoms(o) : g.gtype = "Polygon"

ThePolygon(o) == CHOOSE g \in CandidateGeoms(o) : TRUE

\* C4: with exactly one valid candidate, a Polygon, the result is a new Feature
\* whose geometry is that polygon and whose name is the fallback's name.
C4_OnePolygonWrapped ==
  pc = "normalized" /\ OnePolygon(out)
    => /\ edited_feature.geometry = ThePolygon(out)
       /\ edited_feature.properties.name = feature.properties.name

\* C4 as amended: the name is the fallback's name, or "edited" when the fallback
\* has none, and no other property is carried; when the polygon is empty and the
\* dissolve gives no polygonal geometry, the fallback feature is returned.
C4_OnePolygonWrappedOrFallback ==
  pc \in {"normalized", "crashed"} /\ OnePolygon(out)
    => /\ pc = "normalized"
       /\ IF UnionIsPolygonal(out)
          THEN /\ edited_feature.type = "Feature"
               /\ edited_feature.geometry = ThePolygon(out)
               /\ edited_feature.properties.name =
                    (IF feature.properties.name = Absent THEN "edited" ELSE feature.properties.name)
               /\ ~edited_feature.properties.extra
          ELSE edited_feature = feature

C4_Witness ==
  /\ pc = "normalized"
  /\ OnePolygon(out)
  /\ \E i \in CandidateIndices(out) : AllRecs(out)[i].name = "drawn"
  /\ feature.properties.name \notin {Absent, "drawn"}
  /\ edited_feature # feature

\* C5: with two or more valid candidates the result covers exactly the union of
\* the candidates' areas, and nothing of the fallback beyond it.
C5_CoversUnion ==
  pc = "normalized" /\ CandidateCount(out) >= 2
    => edited_feature.geometry.cells = CandidateCells(out)

\* C5 as amended: so it is whenever the dissolved candidates are polygonal; when
\* they are not (an empty union) the fallback feature is returned.
C5_CoversUnionOrFallback ==
  pc = "normalized" /\ CandidateCount(out) >= 2
    => IF UnionIsPolygonal(out)
       THEN /\ edited_feature.geometry.cells = CandidateCells(out)
            /\ edited_feature.geometry.gtype \in Polygonal
       ELSE edited_feature = feature

C5_Witness ==
  /\ pc = "normalized"
  /\ CandidateCount(out) >= 2
  /\ Cardinality(CandidateGeoms(out)) >= 2
  /\ ~(feature.geometry.cells \subseteq CandidateCells(out))
  /\ edited_feature.geometry.gtype = "MultiPolygon"

DrewOnePolygon(o) ==
  /\ Len(o.all_drawings.items) = 1
  /\ HasValidGeometry(o.all_drawings.items[1])
  /\ o.all_drawings.items[1].geometry.cells # {}
  /\ CandidateGeoms(o) = {o.all_drawings.items[1].geometry}

Covers(f, s) == f # None /\ s \subseteq f.geometry.cells

\* C6: a polygon drawn beside the untouched original is saved and downloaded
\* unioned with the original boundary.
C6_DrawnUnionedWithOriginal ==
  pc = "done" /\ download # None /\ DrewOnePolygon(out)
    => /\ Covers(download, feature.geometry.cells \cup CandidateCells(out))
       /\ saved # None => Covers(saved, feature.geometry.cells \cup CandidateCells(out))

\* C7: an uploaded Feature becomes the current feature as is, a FeatureCollection
\* with at least one feature is dissolved into one Feature, every other upload
\* sets an error message and leaves the current feature unset.
C7_UploadClassified ==
  pc = "loaded" /\ uploaded # NoUpload
    => IF uploaded.kind = "Feature"
       THEN /\ feature = Feature(uploaded.properties, uploaded.hasGeometry, uploaded.geometry)
            /\ error_msg = NoError
       ELSE IF uploaded.kind = "FeatureCollection" /\ uploaded.features # <<>>
       THEN feature.type = "Feature" /\ error_msg = NoError
       ELSE feature = None /\ error_msg # NoError

MembersReadable(u) == \A i \in 1..Len(u.features) : u.features[i].readable

MemberCells(u) == UNION {u.features[i].geometry.cells : i \in 1..Len(u.features)}

\* C7 as amended: the collection is dissolved when every one of its features can
\* be read; one that cannot be read makes the upload fail like unparseable content.
C7_UploadClassifiedReadable ==
  pc = "loaded" /\ uploaded # NoUpload
    => IF uploaded.kind = "Feature"
       THEN /\ feature = Feature(uploaded.properties, uploaded.hasGeometry, uploaded.geometry)
            /\ error_msg = NoError
       ELSE IF uploaded.kind = "FeatureCollection" /\ uploaded.features # <<>> /\ MembersReadable(uploaded)
       THEN /\ feature.type = "Feature"
            /\ feature.properties = Props("uploaded", FALSE)
            /\ feature.hasGeometry
            /\ feature.geometry.cells = MemberCells(uploaded)
            /\ error_msg = NoError
       ELSE feature = None /\ error_msg # NoError

C7_Witness ==
  /\ pc = "loaded"
  /\ uploaded.kind = "FeatureCollection"
  /\ Len(uploaded.features) = 2
  /\ feature.geometry.gtype = "MultiPolygon"

IsBare(r) == r.isMap /\ ~r.hasGeometry /\ r.type \in Polygonal

IsGeomOnly(r) == r.isMap /\ r.hasGeometry /\ r.type # "Feature"

NotBare(r) == ~IsBare(r)

AsFeature(r) ==
  IF IsBare(r) THEN FeatureRec(G(r.type, r.cells))
  ELSE IF IsGeomOnly(r) THEN FeatureRec(r.geometry)
  ELSE r

BareAsFeature(r) == IF IsBare(r) THEN AsFeature(r) ELSE r

GeomOnlyAsFeature(r) == IF IsGeomOnly(r) THEN AsFeature(r) ELSE r

\* C8: a bare polygonal geometry in a shape list (type and coordinates, no
\* "geometry" field) contributes like a Feature record with that geometry.
C8_BareGeometryCollected ==
  pc = "normalized"
    => edited_feature =
         Normalized([out EXCEPT !.all_drawings.items = [i \in 1..Len(@) |-> BareAsFeature(@[i])],
                                !.all_features.items = [i \in 1..Len(@) |-> BareAsFeature(@[i])]])

\* C8 as amended: a record that holds its geometry under a "geometry" field without
\* being a Feature contributes like the Feature record; a bare geometry contributes
\* nothing, the result is that of the payload without it.
C8_GeometryFieldCollected ==
  pc = "normalized"
    => /\ edited_feature =
            Normalized([out EXCEPT !.all_drawings.items = [i \in 1..Len(@) |-> GeomOnlyAsFeature(@[i])],
                                   !.all_features.items = [i \in 1..Len(@) |-> GeomOnlyAsFeature(@[i])]])
       /\ edited_feature =
            Normalized([out EXCEPT !.all_drawings.items = SelectSeq(@, NotBare),
                                   !.all_features.items = SelectSeq(@, NotBare)])

C8_Witness ==
  /\ pc = "normalized"
  /\ \E i \in 1..Len(ListRecs(out)) : IsBare(ListRecs(out)[i])
  /\ \E i \in 1..Len(ListRecs(out)) : IsGeomOnly(ListRecs(out)[i])
  /\ edited_feature # feature

\* C9: a load failure ends the run: with an error message set there is no current
\* feature, and the normalizer, the save and the download are not reached; an
\* upload or a lookup is made at most once per run, and never a lookup once a
\* file is uploaded.
C9_LoadFailureTerminal ==
  /\ error_msg # NoError
       => /\ feature = None
          /\ pc \in {"loaded", "done"}
          /\ calls = 0
          /\ saved = None
          /\ download = None
  /\ reads <= 1
  /\ lookups <= 1
  /\ reads + lookups <= 1
  /\ uploaded # NoUpload => lookups = 0

C9_Witness ==
  /\ pc = "done"
  /\ error_msg # NoError
  /\ uploaded # NoUpload
  /\ reads = 1

\* C10: the result depends only on the valid candidate geometries and the
\* fallback: records reordered, moved to the other shape list or presented
\* twice leave the normalized feature as it was.
C10_RearrangementKeepsResult ==
  [][pc = "normalized" /\ pc' \in {"normalized", "crashed"}
       => pc' = "normalized" /\ edited_feature' = edited_feature]_vars

C10_Witness ==
  /\ pc = "normalized"
  /\ rearranged
  /\ Cardinality(CandidateGeoms(out)) >= 2
  /\ edited_feature # feature

====
